---- MODULE Spec2Model ----
(***************************************************************************)
(* State-machine model of the Twitch MCP server (src/unnamed/part_000):     *)
(* the bounded chat log, the moderation-target resolver, the moderation     *)
(* tools, the autonomous executor and the IRC / monitor start-up.           *)
(*                                                                          *)
(* Strings the code inspects character by character (usernames, chat        *)
(* content, tool inputs, reasons) are sequences of one-character strings;   *)
(* texts the code only passes along are TLA+ strings.                       *)
(***************************************************************************)
EXTENDS Integers, Sequences, FiniteSets, TLC

(***************************************************************************)
(* Bounds of the model                                                      *)
(***************************************************************************)
\* chat messages logged in a run of Spec, SpecExecutor, SpecChat, SpecMonitor
MaxMsgs == 3
\* chat messages delivered in a run of SpecStream (more than MAX_MESSAGES)
MaxIngest == 106
\* SpecCycle: minutes the clock advances by, and the last minute it reaches
ClockStep == 5
MaxClock == 15
\* SpecCycle: timer ticks skipped, and action records before cycles stop
MaxSkipped == 1
MaxRecords == 2

(***************************************************************************)
(* JavaScript string primitives                                             *)
(***************************************************************************)
Upper == <<"A","B","C","D","E","F","G","H","I","J","K","L","M",
           "N","O","P","Q","R","S","T","U","V","W","X","Y","Z">>
Lower == <<"a","b","c","d","e","f","g","h","i","j","k","l","m",
           "n","o","p","q","r","s","t","u","v","w","x","y","z">>
Digits == {"0","1","2","3","4","5","6","7","8","9"}

\* the characters \s matches and trim() strips (the inputs hold no others)
WhiteSpace == {" ", "\t"}

\* the character class [a-zA-Z0-9_]
WordChars == {Upper[i] : i \in 1..26} \cup {Lower[i] : i \in 1..26}
               \cup Digits \cup {"_"}

\* JavaScript null: a value no character sequence equals
Null == <<"null">>

\* JavaScript falsiness of a string-or-null value: !v
Falsy(v) == v = Null \/ v = << >>

ToLowerChar(c) ==
  IF \E i \in 1..26 : Upper[i] = c
    THEN Lower[CHOOSE i \in 1..26 : Upper[i] = c]
    ELSE c

\* String.prototype.toLowerCase
ToLowerCase(s) == [i \in 1..Len(s) |-> ToLowerChar(s[i])]

\* String.prototype.includes
Includes(s, t) ==
  \E i \in 0..(Len(s) - Len(t)) : SubSeq(s, i + 1, i + Len(t)) = t

\* String.prototype.trim
Trim(s) ==
  LET keep == {i \in 1..Len(s) : s[i] \notin WhiteSpace}
  IN  IF keep = {} THEN << >>
      ELSE SubSeq(s, CHOOSE i \in keep : \A j \in keep : i <= j,
                     CHOOSE i \in keep : \A j \in keep : i >= j)

\* template-string / + concatenation
Concat(s, t) == s \o t

(***************************************************************************)
(* Constants of the program                                                 *)
(***************************************************************************)
MAX_MESSAGES == 100

DESCRIPTOR_KEYWORDS(d) ==
  CASE d = <<"t","o","x","i","c">> ->
         << <<"i","d","i","o","t">>, <<"s","t","u","p","i","d">>, <<"h","a","t","e">>, <<"k","i","l","l">>, <<"d","u","m","b">>, <<"t","r","a","s","h">>,
            <<"n","o","o","b">>, <<"l","o","s","e","r">>, <<"s","h","u","t"," ","u","p">>, <<"a","n","n","o","y","i","n","g">>, <<"t","o","x","i","c">>,
            <<"r","u","d","e">>, <<"m","e","a","n">>, <<"s","u","c","k","s">>, <<"b","a","d">>, <<"w","o","r","s","t">>, <<"r","e","p","o","r","t">>,
            <<"b","a","n">> >>
    [] d = <<"s","p","a","m">> ->
         << <<"b","u","y"," ","f","o","l","l","o","w","e","r","s">>, <<"f","r","e","e">>, <<"p","r","o","m","o">>, <<"v","i","s","i","t">>, <<"h","t","t","p">>,
            <<"w","w","w">>, <<"s","p","a","m">>, <<"e","m","o","t","e">>, <<"c","a","p","s">>, <<"r","e","p","e","a","t","e","d">> >>
    [] d = <<"r","u","d","e">> ->
         << <<"s","h","u","t"," ","u","p">>, <<"i","d","i","o","t">>, <<"s","t","u","p","i","d">>, <<"d","u","m","b">>, <<"a","n","n","o","y","i","n","g">>,
            <<"r","u","d","e">>, <<"m","e","a","n">>, <<"t","r","a","s","h">>, <<"l","o","s","e","r">>, <<"b","a","d">>, <<"w","o","r","s","t">> >>
    [] OTHER -> Null

(***************************************************************************)
(* State                                                                    *)
(***************************************************************************)
VARIABLES
  recentMessages,  \* the chat log: a sequence of [username, content, seq]
  ingested,        \* number of addChatMessage calls so far; a message's seq
                   \* is its 0-based position in that order
  lastSelf,        \* the self flag of the latest message the transport delivered
  clock,           \* wall-clock time, in minutes
  ircConnected,    \* the connection-ready flag
  startupConnect,  \* the start-up tmiClient.connect(): pending/resolved/rejected
  autoMonitor,     \* the monitor: [created, isActive, timers, received]
  autonomousEnabled, \* config.autonomous.enabled
  call,            \* the tool or executor invocation in flight, with its locals
  apiLog,          \* requests the current invocation sent to the platform
  result           \* what the last finished invocation returned

vars == <<recentMessages, ingested, lastSelf, clock,
          ircConnected, startupConnect, autoMonitor,
          autonomousEnabled, call, apiLog, result>>

(***************************************************************************)
(* The chat log                                                             *)
(***************************************************************************)
addChatMessage_NoEvict(msgs, n, username, content) ==
  Append(msgs, [username |-> username, content |-> content, seq |-> n])

addChatMessage_EvictNewest(msgs, n, username, content) ==
  LET pushed == Append(msgs, [username |-> username, content |-> content,
                              seq |-> n])
  IN  IF Len(pushed) > MAX_MESSAGES
        THEN SubSeq(pushed, 1, Len(pushed) - 1)
        ELSE pushed

\* push, then shift while over MAX_MESSAGES
addChatMessage(msgs, n, username, content) ==
  LET pushed == Append(msgs, [username |-> username, content |-> content,
                              seq |-> n])
  IN  IF Len(pushed) > MAX_MESSAGES THEN Tail(pushed) ELSE pushed

getRecentChatLog_FirstN(msgs, n) ==
  LET first == SubSeq(msgs, 1, IF Len(msgs) > n THEN n ELSE Len(msgs))
  IN  [i \in 1..Len(first) |->
         Concat(first[i].username, Concat(<<":"," ">>, first[i].content))]

\* slice(-n), then "username: content" per message
getRecentChatLog(msgs, n) ==
  LET from == IF Len(msgs) > n THEN Len(msgs) - n + 1 ELSE 1
      last == SubSeq(msgs, from, Len(msgs))
  IN  [i \in 1..Len(last) |->
         Concat(last[i].username, Concat(<<":"," ">>, last[i].content))]

(***************************************************************************)
(* Moderation-target resolution                                             *)
(***************************************************************************)
\* Map.set(username, (Map.get(username) || 0) + 1) on an insertion-ordered Map
MapBump(scores, username) ==
  IF \E i \in 1..Len(scores) : scores[i].username = username
    THEN [i \in 1..Len(scores) |->
            IF scores[i].username = username
              THEN [scores[i] EXCEPT !.score = @ + 1]
              ELSE scores[i]]
    ELSE Append(scores, [username |-> username, score |-> 1])

RECURSIVE MapBumpTimes(_, _, _)
MapBumpTimes(scores, username, k) ==
  IF k = 0 THEN scores
  ELSE MapBumpTimes(MapBump(scores, username), username, k - 1)

KeywordHits_AtMostOne(content, keywords) ==
  IF \E k \in 1..Len(keywords) : Includes(content, keywords[k]) THEN 1 ELSE 0

\* the inner loop over the keywords: how many of them content holds
KeywordHits(content, keywords) ==
  Cardinality({k \in 1..Len(keywords) : Includes(content, keywords[k])})

\* the scoring loops: one increment per (message, keyword) with the keyword
\* in the lowercased content
RECURSIVE ScoreMessages(_, _, _)
ScoreMessages(msgs, keywords, scores) ==
  IF msgs = << >> THEN scores
  ELSE ScoreMessages(Tail(msgs), keywords,
         MapBumpTimes(scores, Head(msgs).username,
                      KeywordHits(ToLowerCase(Head(msgs).content), keywords)))

\* Array.prototype.sort with ([,a],[,b]) => b - a: stable, descending score
RECURSIVE SortByScoreDesc(_)
InsertByScoreDesc(sorted, e) ==
  LET after == {i \in 1..Len(sorted) : sorted[i].score < e.score}
      at == IF after = {} THEN Len(sorted) + 1
            ELSE CHOOSE i \in after : \A j \in after : i <= j
  IN  SubSeq(sorted, 1, at - 1) \o <<e>> \o SubSeq(sorted, at, Len(sorted))

SortByScoreDesc(entries) ==
  IF entries = << >> THEN << >>
  ELSE InsertByScoreDesc(SortByScoreDesc(SubSeq(entries, 1, Len(entries) - 1)),
                         entries[Len(entries)])

findUserByDescriptor_LastOfTies(msgs, descriptor) ==
  LET known == DESCRIPTOR_KEYWORDS(ToLowerCase(descriptor))
      keywords == IF known # Null THEN known ELSE <<descriptor>>
      userScores == ScoreMessages(msgs, keywords, << >>)
      best == {i \in 1..Len(userScores) :
                 \A j \in 1..Len(userScores) :
                   userScores[j].score <= userScores[i].score}
  IN  IF Len(userScores) = 0 THEN Null
      ELSE userScores[CHOOSE i \in best : \A j \in best : i >= j].username

findUserByDescriptor(msgs, descriptor) ==
  LET known == DESCRIPTOR_KEYWORDS(ToLowerCase(descriptor))
      keywords == IF known # Null THEN known ELSE <<descriptor>>
      userScores == ScoreMessages(msgs, keywords, << >>)
  IN  IF Len(userScores) = 0 THEN Null
      ELSE SortByScoreDesc(userScores)[1].username

\* /^[a-zA-Z0-9_]{3,25}$/.test(s)
IsUsernameShaped(s) ==
  /\ Len(s) >= 3
  /\ Len(s) <= 25
  /\ \A i \in 1..Len(s) : s[i] \in WordChars

\* input.replace(/.*user named\s+/, ""): the greedy .* runs to the last
\* "user named" that whitespace follows, \s+ takes all of that whitespace
ReplaceUserNamed(input) ==
  LET phrase == <<"u","s","e","r"," ","n","a","m","e","d">>
      occ == {i \in 1..Len(input) :
                /\ i + Len(phrase) <= Len(input)
                /\ SubSeq(input, i, i + Len(phrase) - 1) = phrase
                /\ input[i + Len(phrase)] \in WhiteSpace}
  IN  IF occ = {} THEN input
      ELSE LET at == CHOOSE i \in occ : \A j \in occ : i >= j
               rest == {k \in (at + Len(phrase))..Len(input) :
                          input[k] \notin WhiteSpace}
           IN  IF rest = {} THEN << >>
               ELSE SubSeq(input, CHOOSE k \in rest : \A j \in rest : k <= j,
                           Len(input))

\* recentMessages.find(m => m.username.toLowerCase().includes(lowered name))
FindByUsername(msgs, username) ==
  LET hits == {i \in 1..Len(msgs) :
                 Includes(ToLowerCase(msgs[i].username), ToLowerCase(username))}
  IN  IF hits = {} THEN Null
      ELSE msgs[CHOOSE i \in hits : \A j \in hits : i <= j].username

resolveModerationTarget(msgs, input) ==
  IF input = Null \/ Trim(input) = << >> THEN Null
  ELSE IF \/ Includes(ToLowerCase(input), <<"u","s","e","r"," ","n","a","m","e","d">>)
          \/ IsUsernameShaped(Trim(input))
    THEN LET username == Trim(ReplaceUserNamed(input))
             found == FindByUsername(msgs, username)
         IN  IF ~Falsy(found) THEN found ELSE username
    ELSE Null

guessTimeoutDuration_CaseSensitive(reason) ==
  IF \/ Includes(reason, <<"s","p","a","m">>)
     \/ Includes(reason, <<"c","a","p","s">>)
     \/ Includes(reason, <<"e","m","o","t","e">>)
    THEN 300
  ELSE IF \/ Includes(reason, <<"t","o","x","i","c">>)
          \/ Includes(reason, <<"r","u","d","e">>)
          \/ Includes(reason, <<"m","e","a","n">>)
    THEN 1800
  ELSE IF \/ Includes(reason, <<"s","e","v","e","r","e">>)
          \/ Includes(reason, <<"s","e","r","i","o","u","s">>)
    THEN 3600
  ELSE 600

\* first match of the if / else-if chain over the lowercased reason
guessTimeoutDuration(reason) ==
  LET lowerReason == ToLowerCase(reason)
  IN  IF \/ Includes(lowerReason, <<"s","p","a","m">>)
         \/ Includes(lowerReason, <<"c","a","p","s">>)
         \/ Includes(lowerReason, <<"e","m","o","t","e">>)
        THEN 300
      ELSE IF \/ Includes(lowerReason, <<"t","o","x","i","c">>)
              \/ Includes(lowerReason, <<"r","u","d","e">>)
              \/ Includes(lowerReason, <<"m","e","a","n">>)
        THEN 1800
      ELSE IF \/ Includes(lowerReason, <<"s","e","v","e","r","e">>)
              \/ Includes(lowerReason, <<"s","e","r","i","o","u","s">>)
        THEN 3600
      ELSE 600

(***************************************************************************)
(* Inputs                                                                   *)
(***************************************************************************)
\* tags.username || tags['display-name'] || 'unknown'
TagUsername(tags) ==
  IF ~Falsy(tags.username) THEN tags.username
  ELSE IF ~Falsy(tags.displayName) THEN tags.displayName
  ELSE <<"u","n","k","n","o","w","n">>

\* the chat messages the transport delivers
ChatInputs ==
  { [tags |-> [username |-> <<"a","l","i","c","e">>, displayName |-> <<"A","l","i","c","e">>],
     message |-> <<"y","o","u","'","r","e"," ","a","n"," ","i","d","i","o","t">>],
    [tags |-> [username |-> <<"b","o","b">>, displayName |-> Null],
     message |-> <<"i","d","i","o","t"," ","m","u","c","h","?">>],
    [tags |-> [username |-> <<"a","l","i","c","e">>, displayName |-> <<"A","l","i","c","e">>],
     message |-> <<"s","o"," ","d","u","m","b">>],
    [tags |-> [username |-> Null, displayName |-> <<"B","o","b","b","y">>],
     message |-> <<"s","t","u","p","i","d"," ","i","d","i","o","t">>],
    [tags |-> [username |-> Null, displayName |-> Null],
     message |-> <<"F","R","E","E"," ","p","r","o","m","o",","," ","v","i","s","i","t"," ","w","w","w">>] }

\* the chat messages the transport delivers in SpecStream, one after the other
ChatStream ==
  << [tags |-> [username |-> <<"a","l">>, displayName |-> Null], message |-> <<"a">>],
     [tags |-> [username |-> <<"b","o">>, displayName |-> Null], message |-> <<"b">>],
     [tags |-> [username |-> Null, displayName |-> Null], message |-> <<"c">>] >>

\* usernameOrDescriptor values given to the moderation tools
TargetInputs ==
  { <<"t","o","x","i","c">>, <<"a","l","i","c","e">>, <<" ","B","O","B","B","Y"," ">>, <<"b","o","b">>, <<"z","e","d">>,
    <<"t","h","e"," ","u","s","e","r"," ","n","a","m","e","d"," "," ","b","o","b">>, <<"U","s","e","r"," ","N","a","m","e","d"," ","b","o","b">>, <<"u","s","e","r"," ","n","a","m","e","d"," ">>,
    <<"t","h","e"," ","t","o","x","i","c"," ","o","n","e">>, <<"s","o"," ","d","u","m","b">>, <<" "," ">> }

StreamTargetInputs == { <<"t","h","e"," ","t","o","x","i","c"," ","o","n","e">>, <<" "," ">>, <<"u","s","e","r"," ","n","a","m","e","d"," ">>, <<"z","e","d">> }

\* reason values given to the moderation tools
Reasons ==
  { <<"s","p","a","m">>, <<"a","l","l"," ","C","A","P","S">>, <<"e","m","o","t","e"," ","w","a","l","l">>, <<"t","o","x","i","c">>, <<"R","u","d","e">>, <<"m","e","a","n">>,
    <<"s","e","v","e","r","e">>, <<"s","e","r","i","o","u","s">>, <<"h","e","l","l","o">>, << >>,
    <<"t","o","x","i","c"," ","s","p","a","m">>, <<"s","e","v","e","r","e"," ","t","o","x","i","c">>, <<"S","e","r","i","o","u","s"," ","S","P","A","M">> }

\* the parameters of a call; Null and << >> stand for an omitted one
\* new Date(actionTimestamp): a time in minutes, or an invalid date
NoTimestamp == [valid |-> FALSE, time |-> 0]

NoParams ==
  [usernameOrDescriptor |-> Null, reason |-> Null, duration |-> << >>,
   message |-> Null, title |-> Null, choices |-> Null, outcomes |-> Null,
   category |-> Null, actionTimestamp |-> NoTimestamp, rating |-> 0]

\* the calls of the timeoutUser and banUser tools
ModerationCalls(targets, reasons) ==
  {[NoParams EXCEPT !.usernameOrDescriptor = t] : t \in targets}
    \cup {[NoParams EXCEPT !.usernameOrDescriptor = <<"a","l","i","c","e">>, !.reason = r] :
            r \in reasons}

\* response.data?.[0]?.id of a /users lookup that found the login
UserIdOf(login) == <<"id", login>>

\* config.twitchChannel
TwitchChannel == <<"s","t","r","e","a","m","e","r">>

(***************************************************************************)
(* Initial state: createStatelessServer has returned, connect() is pending  *)
(***************************************************************************)
Idle == [pc |-> "idle"]
NoError == [text |-> "", tool |-> "", user |-> << >>]
NoResult == [kind |-> "none"]
\* no analysis cycle has run
NoCycle == [phase |-> "none", source |-> "none", patterns |-> << >>,
            decisions |-> << >>, executed |-> 0, base |-> 0]
NoMonitor == [created |-> FALSE, isActive |-> FALSE, timers |-> 0,
              received |-> << >>, inFlight |-> 0, cycle |-> NoCycle,
              skipped |-> 0, records |-> << >>, lastPoll |-> -1]

\* the locals of a handler at its start
StartOf(surface, name, parameters) ==
  [pc |-> "done", surface |-> surface, name |-> name, parameters |-> parameters,
   targetUser |-> Null, userId |-> Null, lookup |-> "none",
   thrown |-> "", wasActive |-> FALSE]

Init ==
  /\ recentMessages = << >>
  /\ ingested = 0
  /\ lastSelf = FALSE
  /\ clock = 0
  /\ ircConnected = FALSE
  /\ startupConnect = "pending"
  /\ autoMonitor = NoMonitor
  /\ autonomousEnabled \in BOOLEAN
  /\ call = Idle
  /\ apiLog = << >>
  /\ result = NoResult

\* the configuration's default: autonomous.enabled is false
InitDefault == Init /\ ~autonomousEnabled

(***************************************************************************)
(* tmiClient.on('message')                                                  *)
(***************************************************************************)
\* AutonomousMonitor.addChatMessages
AutoMonitorAddChatMessages(m, messages) ==
  [m EXCEPT !.received = @ \o messages]

OnMessage_LogOwn(tags, message, self) ==
  /\ recentMessages' = addChatMessage(recentMessages, ingested,
                                      TagUsername(tags), message)
  /\ ingested' = ingested + 1
  /\ autoMonitor' =
       IF autoMonitor.created
         THEN AutoMonitorAddChatMessages(autoMonitor,
                << [username |-> TagUsername(tags), content |-> message] >>)
         ELSE autoMonitor
  /\ lastSelf' = self
  /\ UNCHANGED <<clock, ircConnected, startupConnect, autonomousEnabled, call,
                 apiLog, result>>

OnMessage(tags, message, self) ==
  /\ IF ~self
       THEN /\ recentMessages' = addChatMessage(recentMessages, ingested,
                                                TagUsername(tags), message)
            /\ ingested' = ingested + 1
            /\ autoMonitor' =
                 IF autoMonitor.created
                   THEN AutoMonitorAddChatMessages(autoMonitor,
                          << [username |-> TagUsername(tags),
                              content |-> message] >>)
                   ELSE autoMonitor
       ELSE UNCHANGED <<recentMessages, ingested, autoMonitor>>
  /\ lastSelf' = self
  /\ UNCHANGED <<clock, ircConnected, startupConnect, autonomousEnabled, call,
                 apiLog, result>>

(***************************************************************************)
(* The timeoutUser and banUser tools                                        *)
(***************************************************************************)
\* a tool handler runs from the call to its first await
ModerationToolCall(name, parameters) ==
  /\ call.pc = "idle"
  /\ LET targetUser ==
           resolveModerationTarget(recentMessages,
                                   parameters.usernameOrDescriptor)
         start == [StartOf("tool", name, parameters) EXCEPT
                     !.targetUser = targetUser]
     IN  IF Falsy(targetUser)
           THEN /\ call' = start
                /\ apiLog' = << >>
                /\ result' = [kind |-> "chatlog",
                              log |-> getRecentChatLog(recentMessages, 20)]
           ELSE /\ call' = [start EXCEPT !.pc = "lookup", !.lookup = "pending"]
                /\ apiLog' = << [endpoint |-> "/users", method |-> "GET",
                                 login |-> targetUser] >>
                /\ result' = NoResult
  /\ UNCHANGED <<recentMessages, ingested, lastSelf, clock,
                 ircConnected, startupConnect,
                 autoMonitor, autonomousEnabled>>

\* reason || "inappropriate behavior", reason || "severe violation of chat rules"
ToolReason(name, reason) ==
  IF ~Falsy(reason) THEN reason
  ELSE IF name = "timeoutUser" THEN <<"i","n","a","p","p","r","o","p","r","i","a","t","e"," ","b","e","h","a","v","i","o","r">>
  ELSE <<"s","e","v","e","r","e"," ","v","i","o","l","a","t","i","o","n"," ","o","f"," ","c","h","a","t"," ","r","u","l","e","s">>

\* the POST /moderation/bans request of a tool
ToolBanRequest(name, userId, reason) ==
  IF name = "timeoutUser"
    THEN [endpoint |-> "/moderation/bans", method |-> "POST",
          user_id |-> userId, reason |-> ToolReason(name, reason),
          duration |-> guessTimeoutDuration(ToolReason(name, reason))]
    ELSE [endpoint |-> "/moderation/bans", method |-> "POST",
          user_id |-> userId, reason |-> ToolReason(name, reason)]

\* getUserIdFromUsername returns: found is "id" (a user), "empty" (no data)
\* or "error" (makeTwitchApiCall threw, caught there); all but "id" give null
ModerationToolLookupReturn(found) ==
  /\ call.pc = "lookup"
  /\ call.surface = "tool"
  /\ LET userId == IF found = "id" THEN UserIdOf(call.targetUser) ELSE Null
     IN  IF userId = Null
           THEN /\ call' = [call EXCEPT !.pc = "done", !.lookup = found]
                /\ result' = [kind |-> "no_user_id", user |-> call.targetUser]
                /\ UNCHANGED apiLog
           ELSE /\ call' = [call EXCEPT !.pc = "api", !.lookup = found,
                                        !.userId = userId]
                /\ apiLog' = Append(apiLog,
                               ToolBanRequest(call.name, userId,
                                              call.parameters.reason))
                /\ UNCHANGED result
  /\ UNCHANGED <<recentMessages, ingested, lastSelf, clock,
                 ircConnected, startupConnect,
                 autoMonitor, autonomousEnabled>>

\* what makeTwitchApiCall throws
ApiErrors ==
  { [ok |-> FALSE, error |-> "API_ERROR", message |-> "HTTP 500"],
    [ok |-> FALSE, error |-> "NETWORK_ERROR",
     message |-> "Network request failed"] }

\* how a request to the platform ends: a response, or one of ApiErrors thrown
ApiOk == [ok |-> TRUE, error |-> "", message |-> ""]
ApiOutcomes == {ApiOk} \cup ApiErrors

\* the POST returns or throws; the tool's catch reports err.message
ModerationToolApiReturn(response) ==
  /\ call.pc = "api"
  /\ call.surface = "tool"
  /\ call' = [call EXCEPT !.pc = "done", !.thrown = response.error]
  /\ result' =
       IF response.ok
         THEN IF call.name = "timeoutUser"
                THEN [kind |-> "timed_out", user |-> call.targetUser,
                      duration |-> apiLog[Len(apiLog)].duration,
                      reason |-> apiLog[Len(apiLog)].reason]
                ELSE [kind |-> "banned", user |-> call.targetUser,
                      reason |-> apiLog[Len(apiLog)].reason]
         ELSE [kind |-> "error", message |-> response.message]
  /\ UNCHANGED <<recentMessages, ingested, lastSelf, clock,
                 ircConnected, startupConnect,
                 autoMonitor, autonomousEnabled, apiLog>>

(***************************************************************************)
(* mcpExecutor: the action capability given to the autonomous monitor       *)
(***************************************************************************)
RecognizedTools ==
  {"sendMessageToChat", "timeoutUser", "banUser", "createTwitchPoll",
   "createTwitchPrediction", "createTwitchClip", "updateStreamTitle",
   "updateStreamCategory"}

\* the calls made of mcpExecutor: <<toolName, parameters>>
ExecutorCalls ==
  { <<"sendMessageToChat", [NoParams EXCEPT !.message = <<"h","i"," ","c","h","a","t">>]>>,
    <<"timeoutUser", [NoParams EXCEPT !.usernameOrDescriptor = <<"a","l","i","c","e">>]>>,
    <<"timeoutUser", [NoParams EXCEPT !.usernameOrDescriptor = <<"a","l","i","c","e">>,
                                      !.reason = <<"t","o","x","i","c">>]>>,
    <<"timeoutUser", [NoParams EXCEPT !.usernameOrDescriptor = <<"b","o","b">>,
                                      !.reason = <<"s","p","a","m">>,
                                      !.duration = <<60>>]>>,
    <<"timeoutUser", [NoParams EXCEPT !.usernameOrDescriptor = <<"b","o","b">>,
                                      !.reason = <<"s","p","a","m">>,
                                      !.duration = <<0>>]>>,
    <<"timeoutUser", [NoParams EXCEPT !.usernameOrDescriptor = <<"t","h","e"," ","t","o","x","i","c"," ","o","n","e">>]>>,
    <<"timeoutUser", NoParams>>,
    <<"banUser", [NoParams EXCEPT !.usernameOrDescriptor = <<" ","B","O","B","B","Y"," ">>]>>,
    <<"banUser", [NoParams EXCEPT !.usernameOrDescriptor = <<" "," ">>,
                                  !.reason = <<"s","e","v","e","r","e">>]>>,
    <<"createTwitchPoll", [NoParams EXCEPT !.title = <<"N","e","x","t"," ","m","a","p","?">>,
                                           !.choices = <<"d","u","s","t",","," ","i","n","f","e","r","n","o">>,
                                           !.duration = <<60>>]>>,
    <<"createTwitchPoll", [NoParams EXCEPT !.title = <<"N","e","x","t"," ","m","a","p","?">>]>>,
    <<"createTwitchPrediction", [NoParams EXCEPT !.title = <<"W","i","n","?">>,
                                                 !.outcomes = <<"y","e","s",",","n","o">>,
                                                 !.duration = <<60>>]>>,
    <<"createTwitchPrediction", NoParams>>,
    <<"createTwitchClip", NoParams>>,
    <<"updateStreamTitle", [NoParams EXCEPT !.title = <<"R","a","n","k","e","d">>]>>,
    <<"updateStreamCategory", [NoParams EXCEPT !.category = <<"C","h","e","s","s">>]>>,
    <<"deleteChannel", NoParams>> }

\* what is thrown inside mcpExecutor besides ApiErrors: tmiClient.say rejecting
\* with a plain string (it has no .message), and .split of an omitted string
SayRejected == [ok |-> FALSE, error |-> "SAY_REJECTED", message |-> ""]
SplitOfUndefined ==
  [ok |-> FALSE, error |-> "TypeError",
   message |-> "Cannot read properties of undefined (reading 'split')"]

\* s.split(',').map(c => c.trim())
RECURSIVE SplitTrim(_)
SplitTrim(s) ==
  LET commas == {i \in 1..Len(s) : s[i] = ","}
  IN  IF commas = {} THEN <<Trim(s)>>
      ELSE LET at == CHOOSE i \in commas : \A j \in commas : i <= j
           IN  <<Trim(SubSeq(s, 1, at - 1))>>
                 \o SplitTrim(SubSeq(s, at + 1, Len(s)))

Returned(success, value, error) ==
  [kind |-> "returned", success |-> success, value |-> value, error |-> error]

NoValue == [user |-> Null, duration |-> << >>, reason |-> Null]

Failure(text, tool, user) ==
  Returned(FALSE, NoValue, [text |-> text, tool |-> tool, user |-> user])

ExecutorCatch_Rethrow(error) ==
  [kind |-> "threw", success |-> FALSE, value |-> NoValue,
   error |-> [text |-> error.message, tool |-> "", user |-> << >>]]

\* the catch of mcpExecutor: err.message || error.message || 'Unknown error'
ExecutorCatch(error) ==
  Failure(IF error.message # "" THEN error.message ELSE "Unknown error",
          "", << >>)

\* parameters.duration || guessTimeoutDuration(parameters.reason || '')
ExecutorDuration(parameters) ==
  IF parameters.duration # << >> /\ parameters.duration[1] # 0
    THEN parameters.duration[1]
    ELSE guessTimeoutDuration(IF ~Falsy(parameters.reason)
                                THEN parameters.reason ELSE << >>)

\* parameters.reason || 'Autonomous moderation'
ExecutorReason(parameters) ==
  IF ~Falsy(parameters.reason) THEN parameters.reason
  ELSE <<"A","u","t","o","n","o","m","o","u","s"," ","m","o","d","e","r","a","t","i","o","n">>

\* the POST /moderation/bans request of mcpExecutor
ExecutorBanRequest(name, userId, parameters) ==
  IF name = "timeoutUser"
    THEN [endpoint |-> "/moderation/bans", method |-> "POST",
          user_id |-> userId, reason |-> ExecutorReason(parameters),
          duration |-> ExecutorDuration(parameters)]
    ELSE [endpoint |-> "/moderation/bans", method |-> "POST",
          user_id |-> userId, reason |-> ExecutorReason(parameters)]

\* the request of the cases that make one platform call
ExecutorRequest(toolName, parameters) ==
  CASE toolName = "createTwitchPoll" ->
         [endpoint |-> "/polls", method |-> "POST", title |-> parameters.title,
          choices |-> SplitTrim(parameters.choices),
          duration |-> parameters.duration]
    [] toolName = "createTwitchPrediction" ->
         [endpoint |-> "/predictions", method |-> "POST",
          title |-> parameters.title,
          outcomes |-> SplitTrim(parameters.outcomes),
          prediction_window |-> parameters.duration]
    [] toolName = "createTwitchClip" ->
         [endpoint |-> "/clips", method |-> "POST"]
    [] toolName = "updateStreamTitle" ->
         [endpoint |-> "/channels", method |-> "PATCH",
          title |-> parameters.title]

\* parameters.choices.split / parameters.outcomes.split of an omitted string
SplitThrows(toolName, parameters) ==
  \/ toolName = "createTwitchPoll" /\ parameters.choices = Null
  \/ toolName = "createTwitchPrediction" /\ parameters.outcomes = Null

\* mcpExecutor from the call to its first await, or to its return
ExecutorCall(toolName, parameters) ==
  /\ call.pc = "idle"
  /\ LET start == StartOf("executor", toolName, parameters)
         targetUser ==
           resolveModerationTarget(recentMessages,
                                   parameters.usernameOrDescriptor)
     IN  CASE toolName = "sendMessageToChat" ->
                \* ensureIrcConnection: connected already, or connect()
                /\ call' = [start EXCEPT
                              !.pc = IF ircConnected THEN "say" ELSE "connect"]
                /\ apiLog' = IF ircConnected
                               THEN << [endpoint |-> "irc.say",
                                        message |-> parameters.message] >>
                               ELSE << >>
                /\ result' = NoResult
           [] toolName \in {"timeoutUser", "banUser"} ->
                IF Falsy(targetUser)
                  THEN /\ call' = [start EXCEPT !.targetUser = targetUser]
                       /\ apiLog' = << >>
                       /\ result' = Failure("Could not resolve target user",
                                            "", << >>)
                  ELSE /\ call' = [start EXCEPT !.pc = "lookup",
                                                !.lookup = "pending",
                                                !.targetUser = targetUser]
                       /\ apiLog' = << [endpoint |-> "/users", method |-> "GET",
                                        login |-> targetUser] >>
                       /\ result' = NoResult
           [] SplitThrows(toolName, parameters) ->
                /\ call' = [start EXCEPT !.thrown = SplitOfUndefined.error]
                /\ apiLog' = << >>
                /\ result' = ExecutorCatch(SplitOfUndefined)
           [] toolName \in {"createTwitchPoll", "createTwitchPrediction",
                            "createTwitchClip", "updateStreamTitle"}
                /\ ~SplitThrows(toolName, parameters) ->
                /\ call' = [start EXCEPT !.pc = "api"]
                /\ apiLog' = <<ExecutorRequest(toolName, parameters)>>
                /\ result' = NoResult
           [] toolName = "updateStreamCategory" ->
                /\ call' = [start EXCEPT !.pc = "search"]
                /\ apiLog' = << [endpoint |-> "/search/categories",
                                 method |-> "GET",
                                 query |-> parameters.category] >>
                /\ result' = NoResult
           [] OTHER ->
                /\ call' = start
                /\ apiLog' = << >>
                /\ result' = Failure("Unknown tool: ", toolName, << >>)
  /\ UNCHANGED <<recentMessages, ingested, lastSelf, clock,
                 ircConnected, startupConnect,
                 autoMonitor, autonomousEnabled>>

\* the connect() of ensureIrcConnection settles
ExecutorConnectReturn(connected) ==
  /\ call.pc = "connect"
  /\ call.surface = "executor"
  /\ IF connected
       THEN /\ ircConnected' = TRUE
            /\ call' = [call EXCEPT !.pc = "say"]
            /\ apiLog' = Append(apiLog, [endpoint |-> "irc.say",
                                         message |-> call.parameters.message])
            /\ UNCHANGED result
       ELSE /\ call' = [call EXCEPT !.pc = "done"]
            /\ result' = Failure("IRC connection not available", "", << >>)
            /\ UNCHANGED <<ircConnected, apiLog>>
  /\ UNCHANGED <<recentMessages, ingested, lastSelf, clock,
                 startupConnect, autoMonitor,
                 autonomousEnabled>>

ExecutorSayReturn_LogsAnyway(sent) ==
  /\ call.pc = "say"
  /\ call.surface = "executor"
  /\ recentMessages' =
       addChatMessage(recentMessages, ingested, TwitchChannel,
                      Concat(<<"[","B","O","T","]"," ">>, call.parameters.message))
  /\ ingested' = ingested + 1
  /\ IF sent
       THEN /\ call' = [call EXCEPT !.pc = "done"]
            /\ result' = Returned(TRUE, NoValue, NoError)
       ELSE /\ call' = [call EXCEPT !.pc = "done", !.thrown = SayRejected.error]
            /\ result' = ExecutorCatch(SayRejected)
  /\ UNCHANGED <<lastSelf, clock, ircConnected, startupConnect, autoMonitor,
                 autonomousEnabled, apiLog>>

\* tmiClient.say settles
ExecutorSayReturn(sent) ==
  /\ call.pc = "say"
  /\ call.surface = "executor"
  /\ IF sent
       THEN /\ recentMessages' =
                 addChatMessage(recentMessages, ingested, TwitchChannel,
                                Concat(<<"[","B","O","T","]"," ">>, call.parameters.message))
            /\ ingested' = ingested + 1
            /\ call' = [call EXCEPT !.pc = "done"]
            /\ result' = Returned(TRUE, NoValue, NoError)
       ELSE /\ call' = [call EXCEPT !.pc = "done", !.thrown = SayRejected.error]
            /\ result' = ExecutorCatch(SayRejected)
            /\ UNCHANGED <<recentMessages, ingested>>
  /\ UNCHANGED <<lastSelf, clock, ircConnected, startupConnect, autoMonitor,
                 autonomousEnabled, apiLog>>

ExecutorLookupReturn_Unchecked(found) ==
  /\ call.pc = "lookup"
  /\ call.surface = "executor"
  /\ LET userId == IF found = "id" THEN UserIdOf(call.targetUser) ELSE Null
     IN  /\ call' = [call EXCEPT !.pc = "api", !.lookup = found,
                                 !.userId = userId]
         /\ apiLog' = Append(apiLog,
                        ExecutorBanRequest(call.name, userId, call.parameters))
         /\ UNCHANGED result
  /\ UNCHANGED <<recentMessages, ingested, lastSelf, clock,
                 ircConnected, startupConnect,
                 autoMonitor, autonomousEnabled>>

\* getUserIdFromUsername returns to the timeoutUser or banUser case
ExecutorLookupReturn(found) ==
  /\ call.pc = "lookup"
  /\ call.surface = "executor"
  /\ LET userId == IF found = "id" THEN UserIdOf(call.targetUser) ELSE Null
     IN  IF userId = Null
           THEN /\ call' = [call EXCEPT !.pc = "done", !.lookup = found]
                /\ result' = Failure("Could not resolve user ID for ", "",
                                     call.targetUser)
                /\ UNCHANGED apiLog
           ELSE /\ call' = [call EXCEPT !.pc = "api", !.lookup = found,
                                        !.userId = userId]
                /\ apiLog' = Append(apiLog,
                               ExecutorBanRequest(call.name, userId,
                                                  call.parameters))
                /\ UNCHANGED result
  /\ UNCHANGED <<recentMessages, ingested, lastSelf, clock,
                 ircConnected, startupConnect,
                 autoMonitor, autonomousEnabled>>

\* the search of updateStreamCategory returns categories, none, or throws
ExecutorSearchReturn(found) ==
  /\ call.pc = "search"
  /\ call.surface = "executor"
  /\ CASE found = "found" ->
            /\ call' = [call EXCEPT !.pc = "api"]
            /\ apiLog' = Append(apiLog, [endpoint |-> "/channels",
                                         method |-> "PATCH",
                                         game_id |-> "categoryId"])
            /\ UNCHANGED result
       [] found = "empty" ->
            /\ call' = [call EXCEPT !.pc = "done"]
            /\ result' = Failure("Could not find category: ", "",
                                 call.parameters.category)
            /\ UNCHANGED apiLog
       [] OTHER ->
            /\ \E error \in ApiErrors :
                 /\ call' = [call EXCEPT !.pc = "done", !.thrown = error.error]
                 /\ result' = ExecutorCatch(error)
            /\ UNCHANGED apiLog
  /\ UNCHANGED <<recentMessages, ingested, lastSelf, clock,
                 ircConnected, startupConnect,
                 autoMonitor, autonomousEnabled>>

\* the last platform call of a case returns or throws
ExecutorApiReturn(response) ==
  /\ call.pc = "api"
  /\ call.surface = "executor"
  /\ call' = [call EXCEPT !.pc = "done", !.thrown = response.error]
  /\ result' =
       IF ~response.ok THEN ExecutorCatch(response)
       ELSE IF call.name = "timeoutUser"
         THEN Returned(TRUE, [user |-> call.targetUser,
                              duration |-> <<apiLog[Len(apiLog)].duration>>,
                              reason |-> call.parameters.reason], NoError)
       ELSE IF call.name = "banUser"
         THEN Returned(TRUE, [NoValue EXCEPT !.user = call.targetUser,
                                             !.reason = call.parameters.reason],
                       NoError)
       ELSE Returned(TRUE, NoValue, NoError)
  /\ UNCHANGED <<recentMessages, ingested, lastSelf, clock,
                 ircConnected, startupConnect,
                 autoMonitor, autonomousEnabled, apiLog>>

Executor ==
  \/ \E c \in ExecutorCalls :
       /\ c[1] = "sendMessageToChat" => ingested < MaxMsgs
       /\ ExecutorCall(c[1], c[2])
  \/ \E connected \in BOOLEAN : ExecutorConnectReturn(connected)
  \/ \E sent \in BOOLEAN : ExecutorSayReturn(sent)
  \/ \E found \in {"id", "empty", "error"} : ExecutorLookupReturn(found)
  \/ \E found \in {"found", "empty", "error"} : ExecutorSearchReturn(found)
  \/ \E response \in ApiOutcomes : ExecutorApiReturn(response)

(***************************************************************************)
(* Start-up connect and the autonomous monitor.  AutonomousMonitor itself   *)
(* (./autonomous-monitor.js) is modelled from its specification: Inactive   *)
(* and Active, start() arming the repeating timer, stop() disarming it.     *)
(***************************************************************************)
AutoMonitorStart_Rearm(m) ==
  [m EXCEPT !.isActive = TRUE, !.timers = @ + 1]

\* AutonomousMonitor.start: Inactive -> Active arms the timer; no-op if Active
AutoMonitorStart(m) ==
  IF m.isActive THEN m
  ELSE [m EXCEPT !.isActive = TRUE, !.timers = @ + 1]

AutoMonitorStop_Abort(m) ==
  IF ~m.isActive THEN m
  ELSE [m EXCEPT !.isActive = FALSE, !.timers = @ - 1, !.inFlight = 0,
                 !.cycle.phase = "none"]

\* AutonomousMonitor.stop: Active -> Inactive disarms the timer; no-op if Inactive
AutoMonitorStop(m) ==
  IF ~m.isActive THEN m
  ELSE [m EXCEPT !.isActive = FALSE, !.timers = @ - 1]

(***************************************************************************)
(* The monitor's analysis cycle: detection, decision, execution.  Patterns  *)
(* are [category, subject, score], subject "" for none; scores and          *)
(* confidences are on a 0..10 scale.                                        *)
(***************************************************************************)
\* config.autonomous.rules: the default thresholds and poll cooldown (minutes),
\* every category enabled, spam set to time out and toxicity to ban
SpamThreshold == 5
SeverityThreshold == 6
PollCooldown == 15
\* the confidence a candidate needs
ConfidenceFloor == 5

RuleAction(category) ==
  CASE category = "spam" -> "timeoutUser"
    [] category = "toxicity" -> "banUser"
    [] category = "engagement" -> "sendMessageToChat"
    [] OTHER -> "createTwitchPoll"

\* step 1: the severity / threshold gate of the category
PassesGate(p) ==
  CASE p.category = "toxicity" -> p.score >= SeverityThreshold
    [] p.category = "spam" -> p.score >= SpamThreshold
    [] OTHER -> TRUE

\* step 2: the category is within its cooldown window
InCooldown(p, lastPoll, now) ==
  /\ p.category = "poll"
  /\ lastPoll >= 0
  /\ now - lastPoll < PollCooldown

CandidateOf(p) ==
  [action |-> RuleAction(p.category), target |-> p.subject,
   category |-> p.category, severity |-> p.score,
   confidence |-> IF p.score > 10 THEN 10 ELSE p.score]

RECURSIVE Candidates(_, _, _)
\* steps 1 to 3 over the patterns, in their order
Candidates(patterns, lastPoll, now) ==
  IF patterns = << >> THEN << >>
  ELSE LET p == Head(patterns)
           rest == Candidates(Tail(patterns), lastPoll, now)
       IN  IF /\ PassesGate(p)
              /\ ~InCooldown(p, lastPoll, now)
              /\ CandidateOf(p).confidence >= ConfidenceFloor
             THEN <<CandidateOf(p)>> \o rest
             ELSE rest

OnePerTarget_KeepAll(cands) == cands

\* step 4 and 5: of the candidates for one target only the severest stays (the
\* first of equals); targetless candidates all stay
OnePerTarget(cands) ==
  LET keep(i) ==
        \/ cands[i].target = ""
        \/ \A j \in 1..Len(cands) :
             (j # i /\ cands[j].target = cands[i].target) =>
               \/ cands[j].severity < cands[i].severity
               \/ cands[j].severity = cands[i].severity /\ i < j
      kept == {i \in 1..Len(cands) : keep(i)}
      RECURSIVE pick(_)
      pick(i) == IF i > Len(cands) THEN << >>
                 ELSE IF i \in kept THEN <<cands[i]>> \o pick(i + 1)
                 ELSE pick(i + 1)
  IN  pick(1)

\* insertion into a list ordered by descending confidence, after its equals
InsertByConfidenceDesc(sorted, d) ==
  LET before == {i \in 1..Len(sorted) : sorted[i].confidence >= d.confidence}
      k == Cardinality(before)
  IN  SubSeq(sorted, 1, k) \o <<d>> \o SubSeq(sorted, k + 1, Len(sorted))

RECURSIVE SortByConfidenceDesc(_)
\* step 6
SortByConfidenceDesc(cands) ==
  IF cands = << >> THEN << >>
  ELSE InsertByConfidenceDesc(
         SortByConfidenceDesc(SubSeq(cands, 1, Len(cands) - 1)),
         cands[Len(cands)])

DecisionEngine_NoCooldown(patterns, lastPoll, now) ==
  SortByConfidenceDesc(OnePerTarget(Candidates(patterns, -1, now)))

\* the Decisions of one cycle
DecisionEngine(patterns, lastPoll, now) ==
  SortByConfidenceDesc(OnePerTarget(Candidates(patterns, lastPoll, now)))

\* what the analysis strategy can report in one cycle
PatternInputs ==
  LET P(c, u, n) == [category |-> c, subject |-> u, score |-> n]
  IN  { << >>,
        << P("toxicity", "alice", 8) >>,
        << P("spam", "alice", 7), P("toxicity", "alice", 9) >>,
        << P("spam", "alice", 7), P("toxicity", "bob", 8) >>,
        << P("spam", "bob", 3) >>,
        << P("poll", "", 6) >>,
        << P("poll", "", 6), P("engagement", "", 7) >> }

\* the cycle is over: the flag is cleared, and a forceAnalysis caller gets the
\* cycle's results
CycleComplete(m, cycle) ==
  [m EXCEPT !.inFlight = @ - 1,
            !.cycle = [cycle EXCEPT !.phase = "none"]]

AutoMonitorRunCycle_NoGuard(m, source) ==
  [m EXCEPT !.inFlight = @ + 1,
            !.cycle = [NoCycle EXCEPT !.phase = "detect", !.source = source,
                                      !.base = Len(m.records)]]

\* a cycle is begun unless one is in flight
AutoMonitorRunCycle(m, source) ==
  IF m.inFlight > 0 THEN m
  ELSE [m EXCEPT !.inFlight = @ + 1,
                 !.cycle = [NoCycle EXCEPT !.phase = "detect",
                                           !.source = source,
                                           !.base = Len(m.records)]]

\* the repeating timer fires: a cycle is begun, or the tick is skipped
Tick ==
  /\ autoMonitor.timers > 0
  /\ call.pc # "done"
  /\ autoMonitor' =
       IF autoMonitor.inFlight > 0
         THEN [AutoMonitorRunCycle(autoMonitor, "tick") EXCEPT
                 !.skipped = @ + 1]
         ELSE AutoMonitorRunCycle(autoMonitor, "tick")
  /\ UNCHANGED <<recentMessages, ingested, lastSelf, clock, ircConnected,
                 startupConnect, autonomousEnabled, call, apiLog, result>>

\* what the forceAnalysis tool reports
AnalysisResult(cycle) ==
  [kind |-> "analysis", patterns |-> Len(cycle.patterns),
   decisions |-> Len(cycle.decisions), executed |-> cycle.executed]

\* the forceAnalysis tool up to its await
ForceAnalysisTool ==
  /\ call.pc = "idle"
  /\ apiLog' = << >>
  /\ IF ~autoMonitor.created
       THEN /\ call' = StartOf("tool", "forceAnalysis", NoParams)
            /\ result' = [kind |-> "not_initialized"]
            /\ UNCHANGED autoMonitor
       ELSE IF autoMonitor.inFlight > 0
         THEN /\ call' = StartOf("tool", "forceAnalysis", NoParams)
              /\ autoMonitor' = AutoMonitorRunCycle(autoMonitor, "force")
              /\ result' = AnalysisResult(NoCycle)
         ELSE /\ call' = [StartOf("tool", "forceAnalysis", NoParams) EXCEPT
                            !.pc = "cycle"]
              /\ autoMonitor' = AutoMonitorRunCycle(autoMonitor, "force")
              /\ UNCHANGED result
  /\ UNCHANGED <<recentMessages, ingested, lastSelf, clock, ircConnected,
                 startupConnect, autonomousEnabled>>

\* the call and result after a cycle step: a finished forced cycle resolves
\* the forceAnalysis tool
CycleHandsOver(m) ==
  IF m.inFlight = 0 /\ m.cycle.source = "force" /\ call.pc = "cycle"
    THEN /\ call' = [call EXCEPT !.pc = "done"]
         /\ result' = AnalysisResult(m.cycle)
    ELSE UNCHANGED <<call, result>>

\* the analysis strategy has answered: the Decisions are made
CycleStrategyReturn(patterns) ==
  /\ autoMonitor.inFlight > 0
  /\ autoMonitor.cycle.phase = "detect"
  /\ call.pc # "done"
  /\ LET decisions == DecisionEngine(patterns, autoMonitor.lastPoll, clock)
         cycle == [autoMonitor.cycle EXCEPT !.patterns = patterns,
                                            !.decisions = decisions,
                                            !.phase = "execute"]
     IN  /\ autoMonitor' =
              IF decisions = << >>
                THEN CycleComplete(autoMonitor, cycle)
                ELSE [autoMonitor EXCEPT !.cycle = cycle]
         /\ CycleHandsOver(autoMonitor')
  /\ UNCHANGED <<recentMessages, ingested, lastSelf, clock, ircConnected,
                 startupConnect, autonomousEnabled, apiLog>>

\* the ActionRecord of a Decision
ActionRecord(d, now, success) ==
  [timestamp |-> now, action |-> d.action, target |-> d.target,
   confidence |-> d.confidence, success |-> success, rating |-> 0]

\* the action capability has answered for the next Decision: it is recorded
CycleActionReturn(success) ==
  /\ autoMonitor.inFlight > 0
  /\ autoMonitor.cycle.phase = "execute"
  /\ call.pc # "done"
  /\ LET d == autoMonitor.cycle.decisions[autoMonitor.cycle.executed + 1]
         cycle == [autoMonitor.cycle EXCEPT !.executed = @ + 1]
         m == [autoMonitor EXCEPT
                 !.cycle = cycle,
                 !.records = Append(@, ActionRecord(d, clock, success)),
                 !.lastPoll = IF d.category = "poll" THEN clock ELSE @]
     IN  /\ autoMonitor' =
              IF cycle.executed = Len(cycle.decisions)
                THEN CycleComplete(m, cycle)
                ELSE m
         /\ CycleHandsOver(autoMonitor')
  /\ UNCHANGED <<recentMessages, ingested, lastSelf, clock, ircConnected,
                 startupConnect, autonomousEnabled, apiLog>>

(***************************************************************************)
(* Feedback on recorded actions                                             *)
(***************************************************************************)
\* the statistics derived from the retained records
Statistics(records) ==
  LET n == Len(records)
      RECURSIVE sum(_)
      sum(i) == IF i = 0 THEN 0 ELSE records[i].confidence + sum(i - 1)
  IN  [actions |-> n,
       successes |-> Cardinality({i \in 1..n : records[i].success}),
       confidenceSum |-> sum(n),
       rated |-> Cardinality({i \in 1..n : records[i].rating > 0})]

\* the records whose timestamp matches
MatchingRecords(records, time) ==
  {i \in 1..Len(records) : records[i].timestamp = time}

AutoMonitorAddUserFeedback_Nearest(m, time, rating) ==
  IF m.records = << >> THEN m
  ELSE [m EXCEPT !.records[Len(m.records)].rating = rating]

\* AutonomousMonitor.addUserFeedback: the feedback is attached to the first
\* record with that timestamp; without one nothing changes
AutoMonitorAddUserFeedback(m, time, rating) ==
  LET found == MatchingRecords(m.records, time)
  IN  IF found = {} THEN m
      ELSE LET i == CHOOSE k \in found : \A j \in found : k <= j
           IN  [m EXCEPT !.records[i].rating = rating]

\* the value addUserFeedback resolves to
FeedbackSucceeds(m, time) == MatchingRecords(m.records, time) # {}

AddFeedbackTool_IgnoresResult(timestamp, rating) ==
  /\ call.pc = "idle"
  /\ call' = StartOf("tool", "addMonitoringFeedback",
                     [NoParams EXCEPT !.actionTimestamp = timestamp,
                                      !.rating = rating])
  /\ apiLog' = << >>
  /\ IF ~autoMonitor.created
       THEN /\ result' = [kind |-> "not_initialized"]
            /\ UNCHANGED autoMonitor
       ELSE IF ~timestamp.valid
         THEN /\ result' = [kind |-> "invalid_timestamp"]
              /\ UNCHANGED autoMonitor
         ELSE /\ autoMonitor' =
                   AutoMonitorAddUserFeedback(autoMonitor, timestamp.time,
                                              rating)
              /\ result' = [kind |-> "feedback_recorded"]
  /\ UNCHANGED <<recentMessages, ingested, lastSelf, clock, ircConnected,
                 startupConnect, autonomousEnabled>>

\* the addMonitoringFeedback tool
AddFeedbackTool(timestamp, rating) ==
  /\ call.pc = "idle"
  /\ call' = StartOf("tool", "addMonitoringFeedback",
                     [NoParams EXCEPT !.actionTimestamp = timestamp,
                                      !.rating = rating])
  /\ apiLog' = << >>
  /\ IF ~autoMonitor.created
       THEN /\ result' = [kind |-> "not_initialized"]
            /\ UNCHANGED autoMonitor
       ELSE IF ~timestamp.valid
         THEN /\ result' = [kind |-> "invalid_timestamp"]
              /\ UNCHANGED autoMonitor
         ELSE /\ autoMonitor' =
                   AutoMonitorAddUserFeedback(autoMonitor, timestamp.time,
                                              rating)
              /\ result' =
                   IF FeedbackSucceeds(autoMonitor, timestamp.time)
                     THEN [kind |-> "feedback_recorded"]
                     ELSE [kind |-> "feedback_not_found"]
  /\ UNCHANGED <<recentMessages, ingested, lastSelf, clock, ircConnected,
                 startupConnect, autonomousEnabled>>

\* the timestamps and ratings feedback comes with
TimestampInputs ==
  {NoTimestamp} \cup
  {[valid |-> TRUE, time |-> t] : t \in {0, ClockStep, MaxClock + 1}}

RatingInputs == {1, 5}

\* time passes
Advance ==
  /\ call.pc # "done"
  /\ clock < MaxClock
  /\ clock' = clock + ClockStep
  /\ UNCHANGED <<recentMessages, ingested, lastSelf, ircConnected,
                 startupConnect, autoMonitor, autonomousEnabled, call, apiLog,
                 result>>

\* tmiClient.connect().then(...): the flag is set, the monitor is constructed
\* (constructed = FALSE: the constructor threw, which is caught and logged)
\* and started when config.autonomous.enabled
StartupConnectResolved(constructed) ==
  /\ startupConnect = "pending"
  /\ call.pc # "done"
  /\ startupConnect' = "resolved"
  /\ ircConnected' = TRUE
  /\ autoMonitor' =
       IF ~constructed THEN autoMonitor
       ELSE IF autonomousEnabled
         THEN AutoMonitorStart([NoMonitor EXCEPT !.created = TRUE])
         ELSE [NoMonitor EXCEPT !.created = TRUE]
  /\ UNCHANGED <<recentMessages, ingested, lastSelf, clock,
                 autonomousEnabled, call, apiLog,
                 result>>

\* tmiClient.connect().catch(...): logged, nothing else
StartupConnectRejected ==
  /\ startupConnect = "pending"
  /\ call.pc # "done"
  /\ startupConnect' = "rejected"
  /\ UNCHANGED <<recentMessages, ingested, lastSelf, clock,
                 ircConnected, autoMonitor,
                 autonomousEnabled, call, apiLog, result>>

\* the startAutonomousMonitoring tool
StartMonitoringTool ==
  /\ call.pc = "idle"
  /\ call' = [StartOf("tool", "startAutonomousMonitoring", NoParams) EXCEPT
                !.wasActive = autoMonitor.isActive]
  /\ apiLog' = << >>
  /\ IF ~autoMonitor.created
       THEN /\ result' = [kind |-> "not_initialized"]
            /\ UNCHANGED autoMonitor
       ELSE /\ autoMonitor' = AutoMonitorStart(autoMonitor)
            /\ result' = [kind |-> "started",
                          isActive |-> autoMonitor'.isActive]
  /\ UNCHANGED <<recentMessages, ingested, lastSelf, clock,
                 ircConnected, startupConnect,
                 autonomousEnabled>>

\* the stopAutonomousMonitoring tool
StopMonitoringTool ==
  /\ call.pc = "idle"
  /\ call' = [StartOf("tool", "stopAutonomousMonitoring", NoParams) EXCEPT
                !.wasActive = autoMonitor.isActive]
  /\ apiLog' = << >>
  /\ IF ~autoMonitor.created
       THEN /\ result' = [kind |-> "not_initialized"]
            /\ UNCHANGED autoMonitor
       ELSE /\ autoMonitor' = AutoMonitorStop(autoMonitor)
            /\ result' = [kind |-> "stopped"]
  /\ UNCHANGED <<recentMessages, ingested, lastSelf, clock,
                 ircConnected, startupConnect,
                 autonomousEnabled>>

\* the handler's promise settles: the caller has the result
Return ==
  /\ call.pc = "done"
  /\ call' = Idle
  /\ apiLog' = << >>
  /\ result' = NoResult
  /\ UNCHANGED <<recentMessages, ingested, lastSelf, clock,
                 ircConnected, startupConnect,
                 autoMonitor, autonomousEnabled>>

ModerationTools(calls) ==
  \/ \E name \in {"timeoutUser", "banUser"}, c \in calls :
       ModerationToolCall(name, c)
  \/ \E found \in {"id", "empty", "error"} : ModerationToolLookupReturn(found)
  \/ \E response \in ApiOutcomes : ModerationToolApiReturn(response)

(***************************************************************************)
(* Specifications.  A handler that has finished (pc = "done") hands its     *)
(* result over before any other event is handled: JavaScript runs each      *)
(* handler to its next await or to its return without interruption.         *)
(***************************************************************************)
\* chat and the moderation tools
Next ==
  \/ Return
  \/ \E m \in ChatInputs, self \in BOOLEAN :
       /\ call.pc # "done"
       /\ ingested < MaxMsgs
       /\ OnMessage(m.tags, m.message, self)
  \/ ModerationTools(ModerationCalls(TargetInputs, Reasons))

Spec == InitDefault /\ [][Next]_vars

\* a long chat: more messages than the log keeps
NextStream ==
  \/ Return
  \/ /\ call.pc # "done"
     /\ ingested < MaxIngest
     /\ LET m == ChatStream[(ingested % Len(ChatStream)) + 1]
        IN  OnMessage(m.tags, m.message, FALSE)
  \/ ModerationTools(ModerationCalls(StreamTargetInputs, {}))

SpecStream == InitDefault /\ [][NextStream]_vars

\* chat and the executor
NextExecutor ==
  \/ Return
  \/ \E m \in ChatInputs, self \in BOOLEAN :
       /\ call.pc # "done"
       /\ ingested < MaxMsgs
       /\ OnMessage(m.tags, m.message, self)
  \/ Executor

SpecExecutor == InitDefault /\ [][NextExecutor]_vars

\* chat only
NextChat ==
  \E m \in ChatInputs, self \in BOOLEAN :
    /\ ingested < MaxMsgs
    /\ OnMessage(m.tags, m.message, self)

SpecChat == InitDefault /\ [][NextChat]_vars

\* chat, the start-up connect and the monitoring tools
NextMonitor ==
  \/ Return
  \/ \E m \in ChatInputs, self \in BOOLEAN :
       /\ call.pc # "done"
       /\ ingested < MaxMsgs
       /\ OnMessage(m.tags, m.message, self)
  \/ \E constructed \in BOOLEAN : StartupConnectResolved(constructed)
  \/ StartupConnectRejected
  \/ StartMonitoringTool
  \/ StopMonitoringTool

SpecMonitor == Init /\ [][NextMonitor]_vars

\* the monitor at work: the timer, the cycle, the monitoring tools
NextCycle ==
  \/ Return
  \/ \E constructed \in BOOLEAN : StartupConnectResolved(constructed)
  \/ StartMonitoringTool
  \/ StopMonitoringTool
  \/ /\ autoMonitor.skipped < MaxSkipped
     /\ Len(autoMonitor.records) < MaxRecords
     /\ Tick
  \/ /\ Len(autoMonitor.records) < MaxRecords
     /\ ForceAnalysisTool
  \/ \E patterns \in PatternInputs : CycleStrategyReturn(patterns)
  \/ \E success \in BOOLEAN : CycleActionReturn(success)
  \/ Advance

SpecCycle == InitDefault /\ [][NextCycle]_vars

\* the start-up connect and the executor
NextConnect ==
  \/ Return
  \/ \E constructed \in BOOLEAN : StartupConnectResolved(constructed)
  \/ StartupConnectRejected
  \/ Executor

SpecConnect == InitDefault /\ [][NextConnect]_vars

(***************************************************************************)
(* The sendMessageToChat tool                                               *)
(***************************************************************************)
\* the messages the tool is asked to send
SendInputs == { <<"h","i"," ","c","h","a","t">> }

\* the handler from the call to the await in ensureIrcConnection, or to say
SendMessageToolCall(message) ==
  /\ call.pc = "idle"
  /\ call' = [StartOf("tool", "sendMessageToChat",
                      [NoParams EXCEPT !.message = message])
                EXCEPT !.pc = IF ircConnected THEN "say" ELSE "connect"]
  /\ apiLog' = IF ircConnected
                 THEN << [endpoint |-> "irc.say", message |-> message] >>
                 ELSE << >>
  /\ result' = NoResult
  /\ UNCHANGED <<recentMessages, ingested, lastSelf, clock,
                 ircConnected, startupConnect,
                 autoMonitor, autonomousEnabled>>

\* the connect() of ensureIrcConnection settles
SendMessageToolConnectReturn(connected) ==
  /\ call.pc = "connect"
  /\ call.surface = "tool"
  /\ IF connected
       THEN /\ ircConnected' = TRUE
            /\ call' = [call EXCEPT !.pc = "say"]
            /\ apiLog' = Append(apiLog, [endpoint |-> "irc.say",
                                         message |-> call.parameters.message])
            /\ UNCHANGED result
       ELSE /\ call' = [call EXCEPT !.pc = "done"]
            /\ result' = [kind |-> "send_failed",
                          text |-> "IRC connection not available"]
            /\ UNCHANGED <<ircConnected, apiLog>>
  /\ UNCHANGED <<recentMessages, ingested, lastSelf, clock,
                 startupConnect, autoMonitor,
                 autonomousEnabled>>

\* tmiClient.say settles; a rejection is not an Error: 'Unknown error'
SendMessageToolSayReturn(sent) ==
  /\ call.pc = "say"
  /\ call.surface = "tool"
  /\ IF sent
       THEN /\ recentMessages' =
                 addChatMessage(recentMessages, ingested, TwitchChannel,
                                Concat(<<"[","B","O","T","]"," ">>, call.parameters.message))
            /\ ingested' = ingested + 1
            /\ call' = [call EXCEPT !.pc = "done"]
            /\ result' = [kind |-> "sent", text |-> "Successfully sent"]
       ELSE /\ call' = [call EXCEPT !.pc = "done", !.thrown = SayRejected.error]
            /\ result' = [kind |-> "send_failed", text |-> "Unknown error"]
            /\ UNCHANGED <<recentMessages, ingested>>
  /\ UNCHANGED <<lastSelf, clock, ircConnected, startupConnect, autoMonitor,
                 autonomousEnabled, apiLog>>

\* the transport hands the bot's own message, handed to it by say, to the
\* 'message' listener: the author is the client's identity, self is true
SayEcho ==
  /\ call.pc = "say"
  /\ OnMessage([username |-> TwitchChannel, displayName |-> Null],
               call.parameters.message, TRUE)

\* chat, the executor and the sendMessageToChat tool
NextSend ==
  \/ Return
  \/ \E m \in ChatInputs, self \in BOOLEAN :
       /\ call.pc # "done"
       /\ ingested < MaxMsgs
       /\ OnMessage(m.tags, m.message, self)
  \/ SayEcho
  \/ Executor
  \/ \E message \in SendInputs :
       /\ ingested < MaxMsgs
       /\ SendMessageToolCall(message)
  \/ \E connected \in BOOLEAN : SendMessageToolConnectReturn(connected)
  \/ \E sent \in BOOLEAN : SendMessageToolSayReturn(sent)

SpecSend == InitDefault /\ [][NextSend]_vars

\* forced cycles and feedback on what they did
NextFeedback ==
  \/ Return
  \/ StartupConnectResolved(TRUE)
  \/ /\ Len(autoMonitor.records) < MaxRecords
     /\ ForceAnalysisTool
  \/ \E patterns \in PatternInputs : CycleStrategyReturn(patterns)
  \/ \E success \in BOOLEAN : CycleActionReturn(success)
  \/ Advance
  \/ \E timestamp \in TimestampInputs, rating \in RatingInputs :
       AddFeedbackTool(timestamp, rating)

SpecFeedback == InitDefault /\ [][NextFeedback]_vars

(***************************************************************************)
(* Properties                                                               *)
(***************************************************************************)
Min(a, b) == IF a <= b THEN a ELSE b

\* the message the transport delivered as the n-th (0-based) of SpecStream
StreamMessage(n) ==
  LET m == ChatStream[(n % Len(ChatStream)) + 1]
  IN  [username |-> TagUsername(m.tags), content |-> m.message, seq |-> n]

\* C1: after N appended messages the log holds min(N, MAX_MESSAGES) messages,
\* and they are the most recent ones, oldest first, in the order they came
C1_LogHoldsMostRecent ==
  /\ Len(recentMessages) = Min(ingested, MAX_MESSAGES)
  /\ \A i \in 1..Len(recentMessages) :
       recentMessages[i] = StreamMessage(ingested - Len(recentMessages) + i - 1)

C1_Witness ==
  /\ ingested = MAX_MESSAGES + 3
  /\ Len(recentMessages) = MAX_MESSAGES
  /\ recentMessages[1].seq = 3

\* C2 as stated: after 105 messages the log holds 100 and the oldest kept
\* message is the one at ingestion index 6, messages 0..4 being evicted
C2_OldestKeptIsIndex6 ==
  ingested = 105 =>
    /\ Len(recentMessages) = 100
    /\ recentMessages[1].seq = 6
    /\ \A i \in 1..Len(recentMessages) : recentMessages[i].seq \notin 0..4

\* C2 amended: after 105 messages the log holds 100 and the oldest kept
\* message is the one at 0-based ingestion index 5 (the sixth delivered),
\* messages 0..4 being evicted
C2_OldestKeptIsIndex5 ==
  ingested = 105 =>
    /\ Len(recentMessages) = 100
    /\ recentMessages[1] = StreamMessage(5)
    /\ \A i \in 1..Len(recentMessages) : recentMessages[i].seq \notin 0..4

C2_Witness ==
  /\ ingested = 105
  /\ recentMessages[Len(recentMessages)].seq = 104

\* the log as <<username, content>> pairs
LogPairs == [i \in 1..Len(recentMessages) |->
               <<recentMessages[i].username, recentMessages[i].content>>]

\* C3: over [alice: "you're an idiot", bob: "idiot much?", alice: "so dumb"]
\* resolveModerationTarget("toxic") returns "alice"
C3_ToxicResolvesToAlice ==
  LogPairs = << <<<<"a","l","i","c","e">>, <<"y","o","u","'","r","e"," ","a","n"," ","i","d","i","o","t">>>>,
                <<<<"b","o","b">>, <<"i","d","i","o","t"," ","m","u","c","h","?">>>>,
                <<<<"a","l","i","c","e">>, <<"s","o"," ","d","u","m","b">>>> >>
    => resolveModerationTarget(recentMessages, <<"t","o","x","i","c">>) = <<"a","l","i","c","e">>

Descriptors == { <<"t","o","x","i","c">>, <<"s","p","a","m">>, <<"r","u","d","e">>, <<"S","p","a","m">>, <<"i","d","i","o","t">>, <<"h","e","l","l","o">> }

KeywordsOf(d) ==
  IF DESCRIPTOR_KEYWORDS(ToLowerCase(d)) # Null
    THEN DESCRIPTOR_KEYWORDS(ToLowerCase(d))
    ELSE <<d>>

HitsIn(content, keywords) ==
  {k \in 1..Len(keywords) : Includes(content, keywords[k])}

\* per message of the log, the number of keywords of d its content holds
HitCounts(d) ==
  [i \in 1..Len(recentMessages) |->
     Cardinality(HitsIn(ToLowerCase(recentMessages[i].content), KeywordsOf(d)))]

RECURSIVE SumHits(_, _, _)
SumHits(h, u, i) ==
  IF i = 0 THEN 0
  ELSE SumHits(h, u, i - 1) + (IF recentMessages[i].username = u THEN h[i] ELSE 0)

\* the users with a qualifying message, each with its score
ScoresFrom(h) ==
  [u \in {recentMessages[i].username : i \in {j \in DOMAIN h : h[j] > 0}} |->
     SumHits(h, u, Len(recentMessages))]

TopOf(sc) == {u \in DOMAIN sc : \A v \in DOMAIN sc : sc[v] <= sc[u]}

\* the place in the log of u's first qualifying message
FirstQualifying(h, u) ==
  CHOOSE i \in DOMAIN h :
    /\ recentMessages[i].username = u
    /\ h[i] > 0
    /\ \A j \in 1..(i - 1) : ~(recentMessages[j].username = u /\ h[j] > 0)

TopScorers(d) == TopOf(ScoresFrom(HitCounts(d)))

EarliestOfTop(r, h, top) ==
  /\ r \in top
  /\ \A v \in top : FirstQualifying(h, r) <= FirstQualifying(h, v)

TieBreakHolds(r, h) ==
  IF \A i \in DOMAIN h : h[i] = 0 THEN r = Null
  ELSE EarliestOfTop(r, h, TopOf(ScoresFrom(h)))

\* C4: findUserByDescriptor returns a user with the highest score and, when
\* several users share it, the one whose first qualifying message is the
\* earliest in the log (none when nobody scores)
C4_TieGoesToEarliest ==
  \A d \in Descriptors :
    TieBreakHolds(findUserByDescriptor(recentMessages, d), HitCounts(d))

C4_Witness ==
  /\ Cardinality(TopScorers(<<"t","o","x","i","c">>)) = 2
  /\ recentMessages[1].username = <<"b","o","b">>
  /\ findUserByDescriptor(recentMessages, <<"t","o","x","i","c">>) = <<"b","o","b">>

\* the X of a "user named X" phrase, the phrase in any casing
NamedCandidate(input) ==
  LET phrase == <<"u","s","e","r"," ","n","a","m","e","d">>
      occ == {i \in 1..Len(input) :
                /\ i + Len(phrase) - 1 <= Len(input)
                /\ ToLowerCase(SubSeq(input, i, i + Len(phrase) - 1)) = phrase}
      at == CHOOSE i \in occ : \A j \in occ : i >= j
  IN  Trim(SubSeq(input, at + Len(phrase), Len(input)))

IsLiteralInput(input) ==
  \/ IsUsernameShaped(Trim(input))
  \/ /\ Trim(input) # << >>
     /\ Includes(ToLowerCase(input), <<"u","s","e","r"," ","n","a","m","e","d">>)

LiteralCandidate(input) ==
  IF Includes(ToLowerCase(input), <<"u","s","e","r"," ","n","a","m","e","d">>)
    THEN NamedCandidate(input)
    ELSE Trim(input)

\* C5: for a literal input, resolveModerationTarget returns the stored name of
\* a buffered message whose username contains the candidate (letter case
\* ignored) when there is one, the candidate itself otherwise, never null
C5_LiteralResolves ==
  \A input \in {t \in TargetInputs : IsLiteralInput(t)} :
    LET r == resolveModerationTarget(recentMessages, input)
        c == LiteralCandidate(input)
        holders == {i \in 1..Len(recentMessages) :
                      Includes(ToLowerCase(recentMessages[i].username),
                               ToLowerCase(c))}
    IN  /\ r # Null
        /\ IF holders # {}
             THEN \E i \in holders : r = recentMessages[i].username
             ELSE r = c

\* C6: a timeoutUser or banUser tool call whose target resolves to nothing
\* answers with the last 20 (at most) log lines, in order, and sends nothing
\* to the platform; whoever is timed out or banned was resolved
C6_NoTargetGivesLogOnly ==
  (call.pc # "idle" /\ call.surface = "tool"
     /\ call.name \in {"timeoutUser", "banUser"}) =>
    /\ Falsy(call.targetUser) =>
         /\ call.pc = "done"
         /\ apiLog = << >>
         /\ result.kind = "chatlog"
         /\ Len(result.log) = Min(20, Len(recentMessages))
         /\ \A i \in 1..Len(result.log) :
              LET m == recentMessages[Len(recentMessages) - Len(result.log) + i]
              IN  result.log[i] = m.username \o <<":"," ">> \o m.content
    /\ (apiLog # << >> \/ result.kind \in {"timed_out", "banned"}) =>
         ~Falsy(call.targetUser)

C6_Witness ==
  /\ call.pc = "done"
  /\ call.surface = "tool"
  /\ call.name = "banUser"
  /\ call.targetUser = Null
  /\ result.kind = "chatlog"
  /\ Len(recentMessages) = 50
  /\ Len(result.log) = 20

\* the timeout request a timeoutUser tool call has sent
TimeoutRequests ==
  IF call.pc # "idle" /\ call.surface = "tool" /\ call.name = "timeoutUser"
    THEN {apiLog[i] : i \in {j \in 1..Len(apiLog) :
                               apiLog[j].endpoint = "/moderation/bans"}}
    ELSE {}

HasAny(text, words) == \E w \in words : Includes(ToLowerCase(text), w)
ShortWords == { <<"s","p","a","m">>, <<"c","a","p","s">>, <<"e","m","o","t","e">> }
MediumWords == { <<"t","o","x","i","c">>, <<"r","u","d","e">>, <<"m","e","a","n">> }
LongWords == { <<"s","e","v","e","r","e">>, <<"s","e","r","i","o","u","s">> }

\* C9 as stated: the duration is 300 when the reason holds spam, caps or
\* emote, 1800 when it holds toxic, rude or mean, 3600 when it holds severe or
\* serious, and 600 when it holds none of them
C9_DurationByFamily ==
  \A q \in TimeoutRequests :
    /\ HasAny(q.reason, ShortWords) => q.duration = 300
    /\ HasAny(q.reason, MediumWords) => q.duration = 1800
    /\ HasAny(q.reason, LongWords) => q.duration = 3600
    /\ ~HasAny(q.reason, ShortWords \cup MediumWords \cup LongWords)
         => q.duration = 600

\* C9 amended: the families are tried in the order short, medium, long, and
\* the first one with a keyword in the reason decides; 600 when none has
C9_DurationByFirstFamily ==
  \A q \in TimeoutRequests :
    q.duration =
      IF HasAny(q.reason, ShortWords) THEN 300
      ELSE IF HasAny(q.reason, MediumWords) THEN 1800
      ELSE IF HasAny(q.reason, LongWords) THEN 3600
      ELSE 600

C9_Witness ==
  \E q \in TimeoutRequests :
    /\ q.reason = <<"S","e","r","i","o","u","s"," ","S","P","A","M">>
    /\ q.duration = 300

\* C7: mcpExecutor never throws: an unknown tool name gets a failure result
\* "Unknown tool: <name>", and whatever the transport or a platform call
\* throws inside a known tool comes back as a failure result with an error
C7_ExecutorNeverThrows ==
  (call.pc = "done" /\ call.surface = "executor") =>
    /\ result.kind = "returned"
    /\ call.name \notin RecognizedTools =>
         /\ ~result.success
         /\ result.error.text = "Unknown tool: "
         /\ result.error.tool = call.name
    /\ call.thrown # "" =>
         /\ ~result.success
         /\ result.error.text # ""

C7_Witness ==
  /\ call.pc = "done"
  /\ call.surface = "executor"
  /\ call.name = "sendMessageToChat"
  /\ call.thrown = "SAY_REJECTED"
  /\ result.kind = "returned"
  /\ result.error.text = "Unknown error"

\* the moderation requests the executor's timeoutUser / banUser case has sent
ExecutorBanRequests ==
  {i \in 1..Len(apiLog) : apiLog[i].endpoint = "/moderation/bans"}

\* C8: in the executor's timeoutUser and banUser cases, a lookup that gives no
\* id (no such user, or the lookup request failing) ends the call with a
\* failure and an error, and no moderation request; a moderation request is
\* sent only for a resolved target whose lookup gave an id
C8_NoIdNoModeration ==
  (call.pc # "idle" /\ call.surface = "executor"
     /\ call.name \in {"timeoutUser", "banUser"}) =>
    /\ call.lookup \in {"empty", "error"} =>
         /\ call.pc = "done"
         /\ result.kind = "returned"
         /\ ~result.success
         /\ result.error.text # ""
         /\ ExecutorBanRequests = {}
    /\ \A i \in ExecutorBanRequests :
         /\ ~Falsy(call.targetUser)
         /\ call.lookup = "id"
         /\ i = 2
         /\ apiLog[1].endpoint = "/users"
         /\ apiLog[1].login = call.targetUser
         /\ apiLog[i].user_id = UserIdOf(call.targetUser)

C8_Witness ==
  /\ call.pc = "done"
  /\ call.surface = "executor"
  /\ call.name = "banUser"
  /\ call.lookup = "error"
  /\ result.error.text = "Could not resolve user ID for "
  /\ Len(apiLog) = 1

\* C10: start() on an Active monitor is a no-op: at most one timer is ever
\* armed, exactly one while Active, and the startAutonomousMonitoring tool on
\* a constructed monitor reports Active without an error
C10_StartIsIdempotent ==
  /\ autoMonitor.timers = (IF autoMonitor.isActive THEN 1 ELSE 0)
  /\ (call.pc = "done" /\ call.name = "startAutonomousMonitoring"
        /\ autoMonitor.created) =>
       /\ result.kind = "started"
       /\ result.isActive
       /\ autoMonitor.isActive

C10_Witness ==
  /\ call.pc = "done"
  /\ call.name = "startAutonomousMonitoring"
  /\ call.wasActive
  /\ autonomousEnabled
  /\ autoMonitor.isActive
  /\ autoMonitor.timers = 1

\* C11: never two analysis cycles in flight: a tick during a cycle is
\* skipped and leaves the cycle alone, forceAnalysis during a cycle begins
\* none, a cycle begins only when none is in flight, and when a cycle ends
\* none is in flight (no skipped tick was queued)
C11_OneCycleAtATime ==
  /\ [](autoMonitor.inFlight <= 1)
  /\ [][/\ autoMonitor'.inFlight > autoMonitor.inFlight =>
             autoMonitor.inFlight = 0
        /\ autoMonitor'.skipped # autoMonitor.skipped =>
             /\ autoMonitor.inFlight = 1
             /\ autoMonitor'.inFlight = 1
             /\ autoMonitor'.cycle = autoMonitor.cycle
             /\ autoMonitor'.records = autoMonitor.records
        /\ (call.pc = "idle" /\ call'.pc # "idle"
              /\ call'.name = "forceAnalysis" /\ autoMonitor.inFlight = 1) =>
             /\ autoMonitor'.inFlight = 1
             /\ autoMonitor'.cycle = autoMonitor.cycle
        /\ autoMonitor'.inFlight < autoMonitor.inFlight =>
             /\ autoMonitor'.inFlight = 0
             /\ autoMonitor'.cycle.phase = "none"]_vars

C11_Witness ==
  /\ autoMonitor.skipped >= 1
  /\ autoMonitor.inFlight = 1
  /\ autoMonitor.cycle.source = "force"
  /\ autoMonitor.cycle.phase = "execute"

\* C12: stop() during a cycle leaves the cycle as it is; a cycle ends only
\* with every Decision executed and recorded; and while the monitor is
\* Inactive the timer begins no cycle
C12_StopLetsCycleFinish ==
  [][/\ (autoMonitor.isActive /\ ~autoMonitor'.isActive) =>
          /\ autoMonitor'.timers = 0
          /\ autoMonitor'.inFlight = autoMonitor.inFlight
          /\ autoMonitor'.cycle = autoMonitor.cycle
          /\ autoMonitor'.records = autoMonitor.records
     /\ (autoMonitor.inFlight = 1 /\ autoMonitor'.inFlight = 0) =>
          /\ autoMonitor'.cycle.executed = Len(autoMonitor'.cycle.decisions)
          /\ Len(autoMonitor'.records) =
               autoMonitor'.cycle.base + Len(autoMonitor'.cycle.decisions)
     /\ (~autoMonitor.isActive
           /\ autoMonitor'.inFlight > autoMonitor.inFlight) =>
          autoMonitor'.cycle.source = "force"]_vars

C12_Witness ==
  /\ call.pc = "done"
  /\ call.name = "stopAutonomousMonitoring"
  /\ call.wasActive
  /\ ~autoMonitor.isActive
  /\ autoMonitor.inFlight = 1
  /\ autoMonitor.cycle.source = "tick"
  /\ autoMonitor.cycle.phase = "execute"
  /\ autoMonitor.cycle.executed = 1

\* no two Decisions of the list name the same user
DistinctTargets(decisions) ==
  \A i, j \in 1..Len(decisions) :
    (i < j /\ decisions[i].target # "") =>
      decisions[i].target # decisions[j].target

\* C13: the Decisions of a cycle hold at most one Decision per target user,
\* whatever Patterns the cycle has
C13_OneDecisionPerTarget ==
  DistinctTargets(autoMonitor.cycle.decisions)

C13_Witness ==
  /\ Len(autoMonitor.cycle.patterns) = 2
  /\ autoMonitor.cycle.patterns[1].subject = "alice"
  /\ autoMonitor.cycle.patterns[2].subject = "alice"
  /\ Len(autoMonitor.cycle.decisions) = 1
  /\ autoMonitor.cycle.decisions[1].action = "banUser"
  /\ autoMonitor.cycle.executed = 1

\* the poll actions executed so far
PollRecords ==
  {i \in 1..Len(autoMonitor.records) :
     autoMonitor.records[i].action = "createTwitchPoll"}

\* C14: two poll actions are never executed within PollCooldown minutes of
\* each other: a poll trigger inside the window is dropped
C14_OnePollPerCooldown ==
  \A i, j \in PollRecords :
    i < j => autoMonitor.records[j].timestamp
               - autoMonitor.records[i].timestamp >= PollCooldown

C14_Witness ==
  /\ Cardinality(PollRecords) = 1
  /\ autoMonitor.cycle.phase = "none"
  /\ autoMonitor.inFlight = 0
  /\ \E k \in 1..Len(autoMonitor.cycle.patterns) :
       autoMonitor.cycle.patterns[k].category = "poll"
  /\ \A k \in 1..Len(autoMonitor.cycle.decisions) :
       autoMonitor.cycle.decisions[k].category # "poll"
  /\ autoMonitor.cycle.base = Len(autoMonitor.records)
  /\ clock - autoMonitor.lastPoll = ClockStep
  /\ ClockStep < PollCooldown

\* C15: feedback for a timestamp no ActionRecord has: the tool answers "not
\* found" as a result, and the records and the statistics stay as they were
C15_FeedbackNotFound ==
  [][(/\ call.pc = "idle"
      /\ call'.pc # "idle"
      /\ call'.name = "addMonitoringFeedback"
      /\ autoMonitor.created
      /\ call'.parameters.actionTimestamp.valid
      /\ MatchingRecords(autoMonitor.records,
                         call'.parameters.actionTimestamp.time) = {}) =>
       /\ call'.pc = "done"
       /\ result'.kind = "feedback_not_found"
       /\ autoMonitor'.records = autoMonitor.records
       /\ Statistics(autoMonitor'.records) = Statistics(autoMonitor.records)
    ]_vars

C15_Witness ==
  /\ call.pc = "done"
  /\ call.name = "addMonitoringFeedback"
  /\ result.kind = "feedback_not_found"
  /\ call.parameters.actionTimestamp.valid
  /\ Len(autoMonitor.records) >= 1
  /\ MatchingRecords(autoMonitor.records,
                     call.parameters.actionTimestamp.time) = {}

\* the score map findUserByDescriptor builds for descriptor d over the log
UserScores(d) == ScoreMessages(recentMessages, KeywordsOf(d), << >>)

\* the messages of u in the log that hold at least one keyword of d
QualifyingMessages(d, u) ==
  {i \in 1..Len(recentMessages) :
     /\ recentMessages[i].username = u
     /\ HitsIn(ToLowerCase(recentMessages[i].content), KeywordsOf(d)) # {}}

\* the (message, keyword) pairs of u with the keyword in the message
QualifyingPairs(d, u) ==
  {p \in (1..Len(recentMessages)) \X (1..Len(KeywordsOf(d))) :
     /\ recentMessages[p[1]].username = u
     /\ Includes(ToLowerCase(recentMessages[p[1]].content), KeywordsOf(d)[p[2]])}

\* C16 as stated: a user's score is the number of that user's messages
\* holding at least one keyword of the descriptor
C16_ScoreCountsMessages ==
  \A d \in Descriptors :
    \A e \in 1..Len(UserScores(d)) :
      UserScores(d)[e].score =
        Cardinality(QualifyingMessages(d, UserScores(d)[e].username))

\* C16 amended: a user's score is the number of (message, keyword) pairs of
\* that user with the keyword in the lowercased content; the users scored
\* are those with a qualifying message, each once
C16_ScoreCountsKeywordHits ==
  \A d \in Descriptors :
    LET scores == UserScores(d)
    IN  /\ \A e \in 1..Len(scores) :
             /\ scores[e].score > 0
             /\ scores[e].score =
                  Cardinality(QualifyingPairs(d, scores[e].username))
        /\ \A e, f \in 1..Len(scores) :
             e # f => scores[e].username # scores[f].username
        /\ \A i \in 1..Len(recentMessages) :
             QualifyingMessages(d, recentMessages[i].username) # {} =>
               \E e \in 1..Len(scores) :
                 scores[e].username = recentMessages[i].username

C16_Witness ==
  /\ Cardinality(QualifyingMessages(<<"t","o","x","i","c">>, <<"B","o","b","b","y">>)) = 1
  /\ \E e \in 1..Len(UserScores(<<"t","o","x","i","c">>)) :
       /\ UserScores(<<"t","o","x","i","c">>)[e].username = <<"B","o","b","b","y">>
       /\ UserScores(<<"t","o","x","i","c">>)[e].score = 2

\* the inputs that are neither blank, nor username-shaped, nor a "user
\* named" phrase: the descriptors
DescriptorInputs ==
  {t \in TargetInputs : Trim(t) # << >> /\ ~IsLiteralInput(t)}

\* C17: for a descriptor input, resolveModerationTarget returns a user with
\* the highest keyword score whenever a buffered message holds a keyword of
\* the descriptor, and null only when no user scores
C17_DescriptorResolves ==
  \A input \in DescriptorInputs :
    LET r == resolveModerationTarget(recentMessages, input)
        scores == UserScores(input)
    IN  IF scores = << >> THEN r = Null
        ELSE \E e \in 1..Len(scores) :
               /\ scores[e].username = r
               /\ \A f \in 1..Len(scores) : scores[f].score <= scores[e].score

\* C18: the executor's timeoutUser sends an explicit duration unchanged, and
\* the duration guessed from the reason only when the request has none
C18_ExplicitDurationSent ==
  (call.pc # "idle" /\ call.surface = "executor" /\ call.name = "timeoutUser") =>
    \A i \in ExecutorBanRequests :
      apiLog[i].duration =
        IF call.parameters.duration # << >>
          THEN call.parameters.duration[1]
          ELSE guessTimeoutDuration(IF Falsy(call.parameters.reason)
                                      THEN << >>
                                      ELSE call.parameters.reason)

\* the log after one more message, by the definition of the bounded log
LogAfter(m) ==
  LET pushed == Append(recentMessages,
                       [username |-> TagUsername(m.tags),
                        content |-> m.message, seq |-> ingested])
  IN  SubSeq(pushed, Len(pushed) - Min(Len(pushed), MAX_MESSAGES) + 1,
             Len(pushed))

\* C19: a delivered message that is not the bot's own is appended once at the
\* tail of the log and, when the monitor exists, forwarded to it, in arrival
\* order; a message flagged as the bot's own changes neither
C19_IngestInOrder ==
  /\ [](/\ \A i \in 1..Len(recentMessages) :
             recentMessages[i].seq = ingested - Len(recentMessages) + i - 1
        /\ ~autoMonitor.created => autoMonitor.received = << >>
        /\ Len(autoMonitor.received) <= ingested
        /\ \A k \in 1..Min(Len(autoMonitor.received), Len(recentMessages)) :
             LET r == autoMonitor.received[Len(autoMonitor.received) - k + 1]
                 b == recentMessages[Len(recentMessages) - k + 1]
             IN  r.username = b.username /\ r.content = b.content)
  /\ [][/\ lastSelf' =>
             /\ recentMessages' = recentMessages
             /\ ingested' = ingested
             /\ autoMonitor'.received = autoMonitor.received
        /\ ingested' # ingested =>
             /\ ~lastSelf'
             /\ ingested' = ingested + 1
             /\ \E m \in ChatInputs :
                  /\ recentMessages' = LogAfter(m)
                  /\ autoMonitor'.received =
                       IF autoMonitor.created
                         THEN Append(autoMonitor.received,
                                     [username |-> TagUsername(m.tags),
                                      content |-> m.message])
                         ELSE << >>]_vars

C19_Witness ==
  /\ lastSelf
  /\ Len(recentMessages) = 2
  /\ autoMonitor.created
  /\ Len(autoMonitor.received) = 1
  /\ autoMonitor.received[1].content = recentMessages[2].content

\* the tmiClient.connect() calls that have not settled yet
ConnectsOutstanding ==
  (IF startupConnect = "pending" THEN 1 ELSE 0)
    + (IF call.pc = "connect" THEN 1 ELSE 0)

\* C20: at most one connect attempt is outstanding at any time
C20_OneConnectOutstanding == ConnectsOutstanding <= 1

\* C21: whenever the connection flag is set, the construction of the monitor
\* has been attempted (the start-up connect has resolved)
C21_ConnectedImpliesMonitorAttempted ==
  ircConnected => startupConnect = "resolved"

\* the candidate the literal branch looks for: the input with the "user
\* named" phrase taken off, trimmed
BranchCandidate(input) == Trim(ReplaceUserNamed(input))

\* C22: in the literal branch, when a buffered username equals the candidate
\* (letter case ignored), the username returned equals the candidate (letter
\* case ignored), not another name that merely contains it
C22_ExactMatchPreferred ==
  \A input \in {t \in TargetInputs : IsLiteralInput(t)} :
    LET c == BranchCandidate(input)
    IN  (\E i \in 1..Len(recentMessages) :
           ToLowerCase(recentMessages[i].username) = ToLowerCase(c)) =>
          ToLowerCase(resolveModerationTarget(recentMessages, input))
            = ToLowerCase(c)

\* the send-chat-message call in flight
Sending == call.pc \in {"connect", "say"} /\ call.name = "sendMessageToChat"

SendSucceeded(r) ==
  \/ r.kind = "returned" /\ r.success
  \/ r.kind = "sent"

SendFailed(r) ==
  \/ r.kind = "returned" /\ ~r.success /\ r.error.text # ""
  \/ r.kind = "send_failed"

\* the entries of the log written under the bot's own name
OwnEntries(msgs) ==
  {msgs[i] : i \in {j \in 1..Len(msgs) : msgs[j].username = TwitchChannel}}

BotEntry(message, n) ==
  [username |-> TwitchChannel, content |-> <<"[","B","O","T","]"," ">> \o message, seq |-> n]

\* C23: a send that succeeds appends the one entry "[BOT] <message>" to the
\* log; a send that ends without sending (no connection, or say rejected)
\* returns a failure and leaves the log as it was; and no other step, the
\* echo of the bot's own message included, adds an entry under the bot's name
C23_BotEntryIffSent ==
  [][ LET ends == Sending /\ call'.pc = "done"
          sent == ends /\ SendSucceeded(result')
          pushed == Append(recentMessages,
                           BotEntry(call.parameters.message, ingested))
      IN  /\ sent => /\ call.pc = "say"
                     /\ recentMessages' =
                          SubSeq(pushed,
                                 Len(pushed) - Min(Len(pushed), MAX_MESSAGES) + 1,
                                 Len(pushed))
          /\ (ends /\ ~sent) => /\ SendFailed(result')
                                /\ recentMessages' = recentMessages
          /\ ~sent => OwnEntries(recentMessages')
                        \subseteq OwnEntries(recentMessages) ]_vars

\* a send has succeeded after the transport echoed the message and after
\* other chat: the log holds the one "[BOT] hi chat" entry, at its tail
C23_Witness ==
  /\ call.pc = "done"
  /\ call.name = "sendMessageToChat"
  /\ SendSucceeded(result)
  /\ lastSelf
  /\ Len(recentMessages) >= 2
  /\ OwnEntries(recentMessages) = {recentMessages[Len(recentMessages)]}
  /\ recentMessages[Len(recentMessages)].content = <<"[","B","O","T","]"," ","h","i"," ","c","h","a","t">>


====
